---- MODULE Spec2Model ----
(***************************************************************************)
(* Delivery_Carries_Love: the shipping strategy factory, the observer      *)
(* based TrackedPackage and the setup_tracked_package driver, for the two  *)
(* revisions of the program, carries.py and carries_love.py.               *)
(*                                                                         *)
(* The Korean string keys of the program are written in romanised ASCII:   *)
(*   ilban = standard, igil = next-day, gukje = international,             *)
(*   boheom = insurance, useon = priority, hanjin, logen, ucheguk (post    *)
(*   office), lotte, baesong_sangtae = the "delivery status" event type.   *)
(***************************************************************************)
EXTENDS Integers, Sequences, FiniteSets, TLC

VARIABLES
    rev,              \* which revision runs: "carries" or "carries_love"
    observers,        \* Subject._observers: event type -> list of weak references
    state,            \* Subject._state
    history,          \* PackageTracker.history
    alive,            \* which subscriber objects have not been reclaimed
    pc,               \* position of the running Subject call: "idle" or "notify"
    frame,            \* the running call: its operation, event type and loop index
    raised,           \* the exception the last call propagated to its caller, "" if none
    calllog,          \* update callbacks run by the current (or last) call, in order
    attached,         \* per event type: every attach call made, in call order
    everDetached,     \* per subscriber and event type: whether detach was ever called
    detachedAt,       \* per subscriber and event type: its registrations when
                      \* detach was last called, -1 once it is attached again
    ncalls,           \* number of calls the environment has made on the package
    dpc,              \* position of setup_tracked_package
    input,            \* arguments of setup_tracked_package
    shipping_option,  \* local of setup_tracked_package: the resolved strategy
    cost,             \* local of setup_tracked_package: the computed cost
    steps,            \* local of setup_tracked_package: the delivery steps
    stepi,            \* local of setup_tracked_package: position in the steps loop
    behaviour,        \* per subscriber: what its update callback does
    stack,            \* the suspended frames of the calls that are nested in callbacks
    returned,         \* the list object a caller of get_history holds, "none" if none
    nsetstate,        \* number of set_state calls made on the package
    arrival           \* local of setup_tracked_package: the result of calculate_arrival_time

vars == <<rev, observers, state, history, alive, pc, frame, raised, calllog, attached,
          everDetached, detachedAt, ncalls, dpc, input, shipping_option, cost, steps,
          stepi, behaviour, stack, returned, nsetstate, arrival>>

ghostvars == <<attached, everDetached, detachedAt, ncalls>>
drvvars == <<dpc, input, shipping_option, cost, steps, stepi>>
extvars == <<behaviour, stack, returned, nsetstate, arrival>>

----
\* Bounds of the model.
MaxCalls == 5

----
\* Values.
Revisions == {"carries", "carries_love"}
None == "<None>"
NoState == <<>>          \* Subject._state is None
Some(v) == <<v>>         \* Subject._state is the value v
Truthy(v) == v # None /\ v # ""

Hours(days, hours) == days * 24 + hours

\* A formatted string: the f-string template and the values substituted in it.
Fmt(tmpl, place, time) == [tmpl |-> tmpl, place |-> place, time |-> time]
Lit(text) == Fmt(text, "", 0)

\* A strategy object: the class of the innermost strategy and the decorator
\* classes wrapped around it, innermost first.
Strategy(cls, wraps) == [raised |-> "", cls |-> cls, wraps |-> wraps]
Raise(err) == [raised |-> err, cls |-> "", wraps |-> <<>>]

----
\* ShippingFactory tables.
strategies ==
    [k \in {"ilban", "igil", "gukje"} |->
        CASE k = "ilban" -> "StandardShipping"
          [] k = "igil" -> "NextDayShipping"
          [] k = "gukje" -> "InternationalShipping"]

decorators(r) ==
    IF r = "carries"
    THEN [k \in {"boheom"} |-> "InsuranceDecorator"]
    ELSE [k \in {"boheom", "useon"} |->
            IF k = "boheom" THEN "InsuranceDecorator" ELSE "PriorityDecorator"]

CompanyClass(k) ==
    CASE k = "hanjin" -> "Hanjin"
      [] k = "logen" -> "Logen"
      [] k = "ucheguk" -> "PostOffice"
      [] k = "CJ" -> "CJ"
      [] k = "lotte" -> "Lotte"
      [] k = "DHL" -> "DHL"
      [] k = "Amazon" -> "Amazon"
      [] k = "EMS" -> "EMS"
      [] k = "FedEx" -> "FedEx"

companies(r) ==
    IF r = "carries"
    THEN [k \in {"hanjin", "ucheguk", "CJ", "lotte", "DHL", "Amazon", "EMS", "FedEx"}
            |-> CompanyClass(k)]
    ELSE [k \in {"hanjin", "logen", "ucheguk", "CJ", "lotte", "DHL", "Amazon", "EMS",
                 "FedEx"} |-> CompanyClass(k)]

MethodClasses == {"StandardShipping", "NextDayShipping", "InternationalShipping"}

\* ShippingFactory.get_shipping_strategy: a KeyError of any of the three table
\* lookups is re-raised as ValueError.
get_shipping_strategy_method_first(r, type, decorator, company) ==
    IF type \in DOMAIN strategies
    THEN Strategy(strategies[type], <<>>)
    ELSE IF Truthy(company) /\ company \in DOMAIN companies(r)
         THEN Strategy(companies(r)[company], <<>>)
         ELSE Raise("ValueError")

get_shipping_strategy_default(r, type, decorator, company) ==
    IF Truthy(company)
    THEN IF company \in DOMAIN companies(r)
         THEN Strategy(companies(r)[company], <<>>)
         ELSE Strategy("StandardShipping", <<>>)
    ELSE IF type \notin DOMAIN strategies
         THEN Strategy("StandardShipping", <<>>)
         ELSE IF Truthy(decorator)
              THEN IF decorator \in DOMAIN decorators(r)
                   THEN Strategy(strategies[type], <<decorators(r)[decorator]>>)
                   ELSE Strategy(strategies[type], <<>>)
              ELSE Strategy(strategies[type], <<>>)

get_shipping_strategy(r, type, decorator, company) ==
    IF Truthy(company)
    THEN IF company \in DOMAIN companies(r)
         THEN Strategy(companies(r)[company], <<>>)
         ELSE Raise("ValueError")
    ELSE IF type \notin DOMAIN strategies
         THEN Raise("ValueError")
         ELSE IF Truthy(decorator)
              THEN IF decorator \in DOMAIN decorators(r)
                   THEN Strategy(strategies[type], <<decorators(r)[decorator]>>)
                   ELSE Raise("ValueError")
              ELSE Strategy(strategies[type], <<>>)

----
\* Python numbers.  The costs are int and float values; a float is an IEEE 754
\* double.  A number is m * 2^e with m a natural number written in binary,
\* least significant bit first and without leading zeros, and m odd or zero
\* (e = 0 when m = 0), so that two numbers are equal exactly when their values
\* are.  int values of the program are far below 2^53 and are exact.
IntBits == 31
Max(a, b) == IF a >= b THEN a ELSE b
Min(a, b) == IF a <= b THEN a ELSE b

\* Without the zeros at the most significant end.
Strip(b) ==
    LET ones == {k \in 1..Len(b) : b[k] = 1}
    IN  IF ones = {} THEN <<>>
        ELSE SubSeq(b, 1, CHOOSE k \in ones : \A j \in ones : j <= k)

Bits(n) == Strip([k \in 1..IntBits |-> (n \div 2^(k - 1)) % 2])
Bit(b, k) == IF k <= Len(b) THEN b[k] ELSE 0

\* The carry into position k of a + b: some lower position generates a carry
\* and every position between propagates it.
Carry(a, b, k) ==
    IF \E j \in 1..(k - 1) :
           /\ Bit(a, j) = 1 /\ Bit(b, j) = 1
           /\ \A i \in (j + 1)..(k - 1) : Bit(a, i) + Bit(b, i) = 1
    THEN 1 ELSE 0

AddBits(a, b) ==
    Strip([k \in 1..(Max(Len(a), Len(b)) + 1) |->
              (Bit(a, k) + Bit(b, k) + Carry(a, b, k)) % 2])

Zeros(k) == [j \in 1..k |-> 0]
ShiftLeft(b, k) == IF b = <<>> THEN <<>> ELSE Zeros(k) \o b

RECURSIVE MulFrom(_, _, _)
MulFrom(a, b, k) ==
    IF k > Len(b) THEN <<>>
    ELSE AddBits(IF b[k] = 1 THEN ShiftLeft(a, k - 1) ELSE <<>>, MulFrom(a, b, k + 1))

\* The sum runs over the bits of the shorter factor.
MulBits(a, b) == IF Len(a) >= Len(b) THEN MulFrom(a, b, 1) ELSE MulFrom(b, a, 1)

\* m * 2^e with the zeros at the least significant end moved into e.
Canon(m, e) ==
    LET ones == {k \in 1..Len(m) : m[k] = 1}
    IN  IF ones = {} THEN [m |-> <<>>, e |-> 0]
        ELSE LET low == CHOOSE k \in ones : \A j \in ones : k <= j
             IN  [m |-> SubSeq(m, low, Len(m)), e |-> e + low - 1]

\* The significand of a double has 53 bits.
MantissaBits == 53

\* Round to nearest, ties to even, of m * 2^e to a double.
Round53(m, e) ==
    IF Len(m) <= MantissaBits THEN Canon(m, e)
    ELSE LET drop == Len(m) - MantissaBits
             kept == SubSeq(m, drop + 1, Len(m))
             guard == m[drop]
             sticky == \E j \in 1..(drop - 1) : m[j] = 1
             up == guard = 1 /\ (sticky \/ kept[1] = 1)
         IN  Canon(IF up THEN AddBits(kept, <<1>>) ELSE kept, e + drop)

PyInt(n) == Canon(Bits(n), 0)
PyAdd(x, y) ==
    LET e == Min(x.e, y.e)
    IN  Round53(AddBits(ShiftLeft(x.m, x.e - e), ShiftLeft(y.m, y.e - e)), e)
PyMul(x, y) == Round53(MulBits(x.m, y.m), x.e + y.e)

\* x <= y
PyLeq(x, y) ==
    LET e == Min(x.e, y.e)
        a == ShiftLeft(x.m, x.e - e)
        b == ShiftLeft(y.m, y.e - e)
        n == Max(Len(a), Len(b))
    IN  \/ \A k \in 1..n : Bit(a, k) = Bit(b, k)
        \/ \E k \in 1..n : /\ Bit(a, k) < Bit(b, k)
                           /\ \A j \in (k + 1)..n : Bit(a, j) = Bit(b, j)

\* A float literal from the hexadecimal digits of its significand, most
\* significant first: digits * 2^e.
HexBits(digits) ==
    [k \in 1..(4 * Len(digits)) |->
        (digits[Len(digits) - ((k - 1) \div 4)] \div 2^((k - 1) % 4)) % 2]

\* 0.01 is the double 0x1.47ae147ae147bp-7, 0.1 is 0x1.999999999999ap-4.
Float_0_01 == Canon(Strip(HexBits(<<1, 4, 7, 10, 14, 1, 4, 7, 10, 14, 1, 4, 7, 11>>)), -59)
Float_0_1 == Canon(Strip(HexBits(<<1, 9, 9, 9, 9, 9, 9, 9, 9, 9, 9, 9, 9, 10>>)), -56)

----
\* Costs.  The result of a calculate_cost call: a number, or the exception raised.
Value(n) == [raised |-> "", value |-> n]
RaiseValue(err) == [raised |-> err, value |-> PyInt(0)]

weight_based_fee_strict(weight) ==
    IF weight < 5 THEN 0
    ELSE IF weight < 10 THEN 2000
    ELSE 5000 + (weight - 10) * 100

weight_based_fee(weight) ==
    IF weight <= 5 THEN 0
    ELSE IF weight <= 10 THEN 2000
    ELSE 5000 + (weight - 10) * 100

base_cost(cls) ==
    CASE cls = "StandardShipping" -> 5000
      [] cls = "NextDayShipping" -> 20000
      [] cls = "InternationalShipping" -> 15000

company_cost(cls) ==
    CASE cls = "Hanjin" -> 2500
      [] cls = "Logen" -> 2500
      [] cls = "PostOffice" -> 2000
      [] cls = "CJ" -> 3000
      [] cls = "Lotte" -> 2500
      [] cls \in {"DHL", "Amazon", "EMS", "FedEx"} -> 40000

\* calculate_cost of an undecorated strategy. args are the positional
\* arguments <<item_value, destination_country, item_weight>>; carries_love.py
\* has no item_weight parameter and no weight fee.
leaf_calculate_cost(r, cls, args) ==
    IF cls \in MethodClasses
    THEN IF r = "carries"
         THEN IF Len(args) > 3 THEN RaiseValue("TypeError")
              ELSE Value(PyInt(base_cost(cls)
                         + weight_based_fee(IF Len(args) >= 3 THEN args[3] ELSE 0)))
         ELSE IF Len(args) > 2 THEN RaiseValue("TypeError")
              ELSE Value(PyInt(base_cost(cls)))
    ELSE IF Len(args) > (IF r = "carries" THEN 3 ELSE 2)
         THEN RaiseValue("TypeError")
         ELSE Value(PyInt(company_cost(cls)))

\* insurance_cost = item_value * 0.1 in carries.py, item_value * 0.01 in
\* carries_love.py: a float product.
insurance_cost(r, item_value) ==
    PyMul(PyInt(item_value), IF r = "carries" THEN Float_0_1 ELSE Float_0_01)

\* calculate_cost of a strategy under its decorators, outermost first.
\* carries.py: InsuranceDecorator.calculate_cost(self, item_value, item_weight=0)
\* takes at most two positional arguments and calls the wrapped strategy with
\* (item_value, "", item_weight).
RECURSIVE calculate_cost(_, _, _)
calculate_cost(r, s, args) ==
    IF s.wraps = <<>>
    THEN leaf_calculate_cost(r, s.cls, args)
    ELSE LET outer == s.wraps[Len(s.wraps)]
             inner == Strategy(s.cls, SubSeq(s.wraps, 1, Len(s.wraps) - 1))
         IN  IF r = "carries"
             THEN IF Len(args) > 2 THEN RaiseValue("TypeError")
                  ELSE LET w == calculate_cost(r, inner,
                                  <<args[1], "", IF Len(args) >= 2 THEN args[2] ELSE 0>>)
                       IN  IF w.raised # "" THEN w
                           ELSE Value(PyAdd(w.value, insurance_cost(r, args[1])))
             ELSE IF Len(args) > 2 THEN RaiseValue("TypeError")
                  ELSE LET w == calculate_cost(r, inner, args)
                       IN  IF w.raised # "" THEN w
                           ELSE IF outer = "InsuranceDecorator"
                                THEN Value(PyAdd(w.value, insurance_cost(r, args[1])))
                                ELSE Value(PyAdd(w.value, PyInt(10000)))

----
\* Arrival times, in hours: departure_time + timedelta(days, hours).
transit(cls) ==
    CASE cls = "StandardShipping" -> Hours(2, 0)
      [] cls = "NextDayShipping" -> Hours(1, 0)
      [] cls = "InternationalShipping" -> Hours(7, 0)
      [] cls = "Hanjin" -> Hours(3, 3)
      [] cls = "Logen" -> Hours(2, 2)
      [] cls = "PostOffice" -> Hours(1, 2)
      [] cls = "CJ" -> Hours(2, 5)
      [] cls = "Lotte" -> Hours(3, 12)
      [] cls = "DHL" -> Hours(5, 0)
      [] cls = "Amazon" -> Hours(7, 0)
      [] cls = "EMS" -> Hours(5, 0)
      [] cls = "FedEx" -> Hours(7, 0)

\* Every decorator delegates to the wrapped strategy.
calculate_arrival_time(s, departure_time) == departure_time + transit(s.cls)

\* get_delivery_steps; every decorator delegates to the wrapped strategy.
get_delivery_steps(r, s, destination, origin, departure_time) ==
    LET arrival_time == calculate_arrival_time(s, departure_time)
        cls == s.cls
        departs == Fmt("{origin}eseo {departure_time}e chulbal", origin, departure_time)
        arrives == Fmt("{destination}e {arrival_time}e dochak", destination, arrival_time)
        arrives_sp == Fmt("{destination}e {arrival_time} e dochak", destination,
                          arrival_time)
    IN  CASE cls \in MethodClasses \cup {"EMS", "FedEx"} ->
                <<departs, Lit("baesong jung"), arrives, Lit("baesong wanlyo")>>
          [] cls \in {"DHL", "Amazon"} ->
                <<departs, Lit("baesong jung"),
                  IF r = "carries" THEN arrives_sp ELSE arrives, Lit("baesong wanlyo")>>
          [] cls = "Hanjin" -> <<departs, arrives>>
          [] cls = "Logen" ->
                <<Lit("taekbae balsong"), Fmt("{origin}eseo chulbal", origin, 0),
                  Fmt("{destination}e dochak", destination, 0)>>
          [] cls = "PostOffice" ->
                <<Lit("jeopsu"), Fmt("{arrival_time} dochak yejeong", "", arrival_time),
                  Fmt("{destination}e dochak", destination, 0)>>
          [] cls = "CJ" ->
                <<Lit("jeopsu"), Lit("banggeum chulbal"), Lit("jigeum baesong jung"),
                  Lit("oneul dochak yejeong"),
                  Fmt(IF r = "carries" THEN "{destination} e dochak"
                      ELSE "{destination}e dochak", destination, 0)>>
          [] cls = "Lotte" ->
                <<Lit("baesong junbi wanlyo"), Lit("baesong jung"),
                  Fmt(IF r = "carries" THEN "{destination} e dochak"
                      ELSE "{destination}e dochak", destination, 0)>>

----
\* Subject, PackageTracker and TrackedPackage.
Subscribers == {"b1", "b2"}
EventTypes == {"baesong_sangtae", "other"}
States == {"s1", "s2"}

Count(list, x) == Cardinality({k \in 1..Len(list) : list[k] = x})
Observers(log) == [k \in 1..Len(log) |-> log[k].observer]

\* list.remove(x): removes the first element equal to x, ValueError if none is.
\* weakref.ref(observer) of a live observer equals exactly the references to
\* that same observer.
list_remove(list, x) ==
    IF Count(list, x) = 0
    THEN [raised |-> "ValueError", list |-> list]
    ELSE LET p == CHOOSE k \in 1..Len(list) :
                     list[k] = x /\ \A j \in 1..(k - 1) : list[j] # x
         IN  [raised |-> "", list |-> SubSeq(list, 1, p - 1) \o SubSeq(list, p + 1, Len(list))]

\* Subject.attach
attach_dedup(obs, observer, event_type) ==
    IF event_type \notin DOMAIN obs
    THEN obs @@ (event_type :> <<observer>>)
    ELSE IF Count(obs[event_type], observer) > 0 THEN obs
         ELSE [obs EXCEPT ![event_type] = Append(@, observer)]

attach(obs, observer, event_type) ==
    IF event_type \notin DOMAIN obs
    THEN obs @@ (event_type :> <<observer>>)
    ELSE [obs EXCEPT ![event_type] = Append(@, observer)]

\* Subject.detach: KeyError (no list for the event type) and ValueError (no
\* such reference in the list) are caught and dropped.
detach_noop(obs, observer, event_type) == [raised |-> "", observers |-> obs]

detach_all(obs, observer, event_type) ==
    IF event_type \notin DOMAIN obs
    THEN [raised |-> "", observers |-> obs]
    ELSE [raised |-> "",
          observers |-> [obs EXCEPT ![event_type] = SelectSeq(@, LAMBDA x : x # observer)]]

detach(obs, observer, event_type) ==
    IF event_type \notin DOMAIN obs
    THEN [raised |-> "", observers |-> obs]
    ELSE LET r == list_remove(obs[event_type], observer)
         IN  IF r.raised = "ValueError"
             THEN [raised |-> "", observers |-> obs]
             ELSE [raised |-> "", observers |-> [obs EXCEPT ![event_type] = r.list]]

\* PackageTracker.update_status
update_status(h, status) == Append(h, status)

\* TrackedPackage.set_state up to the call of notify: the tracker records the
\* state, then the state is assigned.
set_state_late(h, st, new) == [history |-> update_status(h, new), state |-> st]

set_state_unrecorded(h, st, new) == [history |-> h, state |-> Some(new)]

set_state(h, st, new) == [history |-> update_status(h, new), state |-> Some(new)]

\* Subject.notify: self._observers.get(event_type, [])
notify_list(obs, event_type) == IF event_type \in DOMAIN obs THEN obs[event_type] ELSE <<>>

\* Subject.notify: the element the for loop visits at iterator index i (from 0).
notify_item_reversed(list, i) == list[Len(list) - i]

notify_item(list, i) == list[i + 1]

\* Subject.notify, the loop body: the weak reference is dereferenced and a live
\* observer's update is called with self._state.
notify_body_unchecked(observer, is_alive, st, h, log) ==
    IF is_alive
    THEN [raised |-> "", log |-> Append(log, [observer |-> observer, state |-> st, seen |-> h])]
    ELSE [raised |-> "AttributeError", log |-> log]

notify_body(observer, is_alive, st, h, log) ==
    IF is_alive
    THEN [raised |-> "", log |-> Append(log, [observer |-> observer, state |-> st, seen |-> h])]
    ELSE [raised |-> "", log |-> log]

\* The frame of a call: arg is the state passed to set_state, list0 the
\* registrations of the event type when the loop of notify starts.
NoFrame ==
    [op |-> "none", event_type |-> "", arg |-> NoState, i |-> 0, list0 |-> <<>>,
     fresh |-> FALSE]
Enter(op, obs, event_type, arg) ==
    [op |-> op, event_type |-> event_type, arg |-> arg, i |-> 0,
     list0 |-> notify_list(obs, event_type), fresh |-> event_type \notin DOMAIN obs]

\* The list the running loop iterates: the registry's list object, or the
\* fresh empty list that get() returned when the event type had none.
LoopList == IF frame.fresh THEN <<>> ELSE notify_list(observers, frame.event_type)

----
\* Calls made on a TrackedPackage by its environment.
Attach(o, e) ==
    /\ dpc = "off" /\ pc = "idle" /\ alive[o] /\ ncalls < MaxCalls
    /\ observers' = attach(observers, o, e)
    /\ attached' = [attached EXCEPT ![e] = Append(@, o)]
    /\ detachedAt' = [detachedAt EXCEPT ![o][e] = -1]
    /\ ncalls' = ncalls + 1
    /\ raised' = ""
    /\ frame' = NoFrame /\ calllog' = <<>>
    /\ UNCHANGED <<rev, state, history, alive, pc, everDetached>>
    /\ UNCHANGED drvvars
    /\ UNCHANGED extvars

Detach(o, e) ==
    /\ dpc = "off" /\ pc = "idle" /\ alive[o] /\ ncalls < MaxCalls
    /\ LET r == detach(observers, o, e)
       IN  /\ observers' = r.observers
           /\ raised' = r.raised
    /\ detachedAt' = [detachedAt EXCEPT ![o][e] = Count(notify_list(observers, e), o)]
    /\ everDetached' = [everDetached EXCEPT ![o][e] = TRUE]
    /\ ncalls' = ncalls + 1
    /\ frame' = NoFrame /\ calllog' = <<>>
    /\ UNCHANGED <<rev, state, history, alive, pc, attached>>
    /\ UNCHANGED drvvars
    /\ UNCHANGED extvars

Notify(e) ==
    /\ dpc = "off" /\ pc = "idle" /\ ncalls < MaxCalls
    /\ pc' = "notify"
    /\ frame' = Enter("notify", observers, e, NoState)
    /\ calllog' = <<>>
    /\ raised' = ""
    /\ ncalls' = ncalls + 1
    /\ UNCHANGED <<rev, observers, state, history, alive, attached, everDetached, detachedAt>>
    /\ UNCHANGED drvvars
    /\ UNCHANGED extvars

SetState(st, e) ==
    /\ dpc = "off" /\ pc = "idle" /\ ncalls < MaxCalls
    /\ LET r == set_state(history, state, st)
       IN  /\ history' = r.history
           /\ state' = r.state
    /\ pc' = "notify"
    /\ frame' = Enter("set_state", observers, e, Some(st))
    /\ calllog' = <<>>
    /\ raised' = ""
    /\ ncalls' = ncalls + 1
    /\ UNCHANGED <<rev, observers, alive, attached, everDetached, detachedAt>>
    /\ UNCHANGED drvvars
    /\ nsetstate' = nsetstate + 1
    /\ UNCHANGED <<behaviour, stack, returned, arrival>>

\* One iteration of the loop of notify.
NotifyStep ==
    /\ pc = "notify" /\ frame.i < Len(LoopList)
    /\ LET o == notify_item(LoopList, frame.i)
           r == notify_body(o, alive[o], state, history, calllog)
       IN  /\ calllog' = r.log
           /\ raised' = r.raised
           /\ pc' = IF r.raised = "" THEN "notify" ELSE "idle"
    /\ frame' = [frame EXCEPT !.i = @ + 1]
    /\ UNCHANGED <<rev, observers, state, history, alive>>
    /\ UNCHANGED ghostvars
    /\ UNCHANGED drvvars
    /\ UNCHANGED extvars

\* The loop is exhausted: notify, and set_state with it, returns.
NotifyReturn ==
    /\ pc = "notify" /\ frame.i >= Len(LoopList)
    /\ pc' = "idle"
    /\ UNCHANGED <<rev, observers, state, history, alive, frame, raised, calllog>>
    /\ UNCHANGED ghostvars
    /\ UNCHANGED drvvars
    /\ UNCHANGED extvars

\* The last strong reference to a subscriber is dropped: the object is
\* reclaimed and the weak references to it are dead.
Reclaim(o) ==
    /\ dpc = "off" /\ pc = "idle" /\ alive[o]
    /\ alive' = [alive EXCEPT ![o] = FALSE]
    /\ frame' = NoFrame /\ calllog' = <<>>
    /\ UNCHANGED <<rev, observers, state, history, pc, raised>>
    /\ UNCHANGED ghostvars
    /\ UNCHANGED drvvars
    /\ UNCHANGED extvars

\* Branch.update only prints the state.
Prints == [kind |-> "print", target |-> ""]

NoInput == [shipping_type |-> "", decorator |-> None, company |-> None, item_value |-> 0,
            item_weight |-> 0, destination |-> "", origin |-> "", departure_time |-> 0]

InitPackage ==
    /\ observers = <<>>
    /\ state = NoState
    /\ history = <<>>
    /\ alive = [o \in Subscribers |-> TRUE]
    /\ pc = "idle"
    /\ frame = NoFrame
    /\ raised = ""
    /\ calllog = <<>>
    /\ attached = [e \in EventTypes |-> <<>>]
    /\ everDetached = [o \in Subscribers |-> [e \in EventTypes |-> FALSE]]
    /\ detachedAt = [o \in Subscribers |-> [e \in EventTypes |-> -1]]
    /\ ncalls = 0
    /\ stack = <<>>
    /\ returned = "none"
    /\ nsetstate = 0
    /\ arrival = 0

\* The classes Subject, PackageTracker and TrackedPackage are the same text in
\* both revisions; the calls of the environment are explored on one of them.
Init ==
    /\ rev = "carries"
    /\ InitPackage
    /\ behaviour = [o \in Subscribers |-> Prints]
    /\ dpc = "off"
    /\ input = NoInput
    /\ shipping_option = Raise("")
    /\ cost = Value(PyInt(0))
    /\ steps = <<>>
    /\ stepi = 0

Next ==
    \/ \E o \in Subscribers, e \in EventTypes : Attach(o, e)
    \/ \E o \in Subscribers, e \in EventTypes : Detach(o, e)
    \/ \E e \in EventTypes : Notify(e)
    \/ \E st \in States, e \in EventTypes : SetState(st, e)
    \/ NotifyStep
    \/ NotifyReturn
    \/ \E o \in Subscribers : Reclaim(o)

Spec == Init /\ [][Next]_vars

----
\* setup_tracked_package.
Branch == "b1"                       \* the Branch the driver creates
DeliveryStatus == "baesong_sangtae"  \* the event type the driver uses

TypeInputs == {"ilban", "igil", "gukje", "teukgeup"}
DecoratorInputs == {None, "", "boheom", "useon", "halin"}
CompanyInputs == {None, "", "hanjin", "logen", "ucheguk", "CJ", "cj", "lotte", "DHL",
                  "Amazon", "EMS", "FedEx"}
ItemValues == {0, 1000}
ItemWeights == {3, 8, 15}
DepartureTimes == {0, 30}

\* carries_love.py has no item_weight; carries.py takes the departure time
\* from the clock, carries_love.py from its caller.
Inputs(r) ==
    [shipping_type : TypeInputs, decorator : DecoratorInputs, company : CompanyInputs,
     item_value : ItemValues, item_weight : IF r = "carries" THEN ItemWeights ELSE {0},
     destination : {"busan"}, origin : {"seoul"}, departure_time : DepartureTimes]

\* The positional arguments of the driver's call of calculate_cost; the
\* destination country is the destination for a domestic address.
CostArgs(r, in) ==
    IF r = "carries"
    THEN <<in.item_value, in.destination, in.item_weight>>
    ELSE <<in.item_value, in.destination>>

\* package = TrackedPackage(package_id); branch = Branch(...); package.attach(...)
DriverAttach ==
    /\ dpc = "start"
    /\ observers' = attach(observers, Branch, DeliveryStatus)
    /\ dpc' = "resolve"
    /\ UNCHANGED <<rev, state, history, alive, pc, frame, raised, calllog>>
    /\ UNCHANGED ghostvars
    /\ UNCHANGED <<input, shipping_option, cost, steps, stepi>>
    /\ UNCHANGED extvars

\* shipping_option = shipping_factory.get_shipping_strategy(...); a ValueError
\* leaves the function.
DriverResolve ==
    /\ dpc = "resolve"
    /\ LET r == get_shipping_strategy(rev, input.shipping_type, input.decorator,
                                      input.company)
       IN  /\ shipping_option' = r
           /\ raised' = r.raised
           /\ dpc' = IF r.raised = "" THEN "cost" ELSE "raised"
    /\ UNCHANGED <<rev, observers, state, history, alive, pc, frame, calllog>>
    /\ UNCHANGED ghostvars
    /\ UNCHANGED <<input, cost, steps, stepi>>
    /\ UNCHANGED extvars

\* arrival_time = ...; cost = shipping_option.calculate_cost(...); an error of
\* the call leaves the function.
DriverCost ==
    /\ dpc = "cost"
    /\ LET c == calculate_cost(rev, shipping_option, CostArgs(rev, input))
       IN  /\ cost' = c
           /\ raised' = c.raised
           /\ dpc' = IF c.raised = "" THEN "steps" ELSE "raised"
    /\ arrival' = calculate_arrival_time(shipping_option, input.departure_time)
    /\ UNCHANGED <<rev, observers, state, history, alive, pc, frame, calllog>>
    /\ UNCHANGED ghostvars
    /\ UNCHANGED <<input, shipping_option, steps, stepi>>
    /\ UNCHANGED <<behaviour, stack, returned, nsetstate>>

\* steps = shipping_option.get_delivery_steps(destination, origin, departure_time)
DriverSteps ==
    /\ dpc = "steps"
    /\ steps' = get_delivery_steps(rev, shipping_option, input.destination, input.origin,
                                   input.departure_time)
    /\ stepi' = 0
    /\ dpc' = "loop"
    /\ UNCHANGED <<rev, observers, state, history, alive, pc, frame, raised, calllog>>
    /\ UNCHANGED ghostvars
    /\ UNCHANGED <<input, shipping_option, cost>>
    /\ UNCHANGED extvars

\* for step in steps: package.set_state(step, ...)
DriverSetState ==
    /\ dpc = "loop" /\ pc = "idle" /\ stepi < Len(steps)
    /\ LET r == set_state(history, state, steps[stepi + 1])
       IN  /\ history' = r.history
           /\ state' = r.state
    /\ pc' = "notify"
    /\ frame' = Enter("set_state", observers, DeliveryStatus, Some(steps[stepi + 1]))
    /\ calllog' = <<>>
    /\ stepi' = stepi + 1
    /\ UNCHANGED <<rev, observers, alive, raised>>
    /\ UNCHANGED ghostvars
    /\ UNCHANGED <<dpc, input, shipping_option, cost, steps>>
    /\ nsetstate' = nsetstate + 1
    /\ UNCHANGED <<behaviour, stack, returned, arrival>>

\* package.detach(branch, ...) after the loop
DriverDetach ==
    /\ dpc = "loop" /\ pc = "idle" /\ stepi = Len(steps)
    /\ LET r == detach(observers, Branch, DeliveryStatus)
       IN  /\ observers' = r.observers
           /\ raised' = r.raised
    /\ dpc' = "done"
    /\ UNCHANGED <<rev, state, history, alive, pc, frame, calllog>>
    /\ UNCHANGED ghostvars
    /\ UNCHANGED <<input, shipping_option, cost, steps, stepi>>
    /\ UNCHANGED extvars

InitDriver ==
    /\ rev \in Revisions
    /\ InitPackage
    /\ behaviour = [o \in Subscribers |-> Prints]
    /\ dpc = "start"
    /\ input \in Inputs(rev)
    /\ shipping_option = Raise("")
    /\ cost = Value(PyInt(0))
    /\ steps = <<>>
    /\ stepi = 0

NextDriver ==
    \/ DriverAttach
    \/ DriverResolve
    \/ DriverCost
    \/ DriverSteps
    \/ DriverSetState
    \/ NotifyStep
    \/ NotifyReturn
    \/ DriverDetach

SpecDriver == InitDriver /\ [][NextDriver]_vars

----
\* Properties.

\* The registrations of subscriber o under event type e.
Registrations(o, e) == Count(notify_list(observers, e), o)
\* A call of notify or set_state has just returned.
Returned == pc = "idle" /\ frame.op # "none"
Resolved == dpc \in {"cost", "steps", "loop", "done", "raised"}
ExpectedSteps ==
    get_delivery_steps(rev, shipping_option, input.destination, input.origin,
                       input.departure_time)

\* C1: in every set_state call of a TrackedPackage, each update callback runs
\* when the state it is passed is already the last entry of the history.
C1_HistoryBeforeUpdate ==
    frame.op = "set_state" =>
        \A k \in 1..Len(calllog) :
            /\ calllog[k].seen # <<>>
            /\ calllog[k].state = Some(calllog[k].seen[Len(calllog[k].seen)])
            /\ calllog[k].state = frame.arg

C1_Witness ==
    /\ pc = "notify" /\ frame.op = "set_state"
    /\ Len(calllog) >= 1
    /\ Len(history) = 2 /\ history[1] # history[2]

\* C2: whenever the resolver returned a strategy, setup_tracked_package ends
\* with the history equal to the strategy's delivery steps, the current state
\* equal to the last step, and the branch detached only after all steps.
C2_DrivenThroughSteps ==
    /\ (dpc \in {"done", "raised"} /\ Resolved /\ shipping_option.raised = "") =>
           /\ dpc = "done"
           /\ history = ExpectedSteps
           /\ state = Some(ExpectedSteps[Len(ExpectedSteps)])
    /\ (Resolved /\ shipping_option.raised = "" /\ Registrations(Branch, DeliveryStatus) = 0) =>
           /\ dpc = "done"
           /\ Len(history) = Len(ExpectedSteps)

\* C3: when resolution fails with UnsupportedOption in setup_tracked_package,
\* the package has no history entry, no notification was delivered and no
\* registration is left in the registry.
C3_FailedResolutionLeavesNothing ==
    (dpc = "raised" /\ shipping_option.raised = "ValueError") =>
        /\ history = <<>>
        /\ state = NoState
        /\ calllog = <<>>
        /\ \A e \in DOMAIN observers : observers[e] = <<>>

\* C4: get_shipping_strategy raises ValueError exactly when (a) no carrier key
\* is given and the method key is not in the method table, (b) no carrier key
\* is given, the method key is in its table and a given modifier key is not in
\* the modifier table, or (c) a given carrier key is not in the carrier table;
\* otherwise it returns the strategy of the keys, never a default. A key is
\* given when it is neither None nor the empty string.
C4_UnsupportedOption ==
    LET type == input.shipping_type
        decorator == input.decorator
        company == input.company
        a == ~Truthy(company) /\ type \notin {"ilban", "igil", "gukje"}
        b == /\ ~Truthy(company) /\ type \in {"ilban", "igil", "gukje"}
             /\ Truthy(decorator) /\ decorator \notin DOMAIN decorators(rev)
        c == Truthy(company) /\ company \notin DOMAIN companies(rev)
    IN  Resolved =>
            IF a \/ b \/ c
            THEN /\ shipping_option = Raise("ValueError")
                 /\ dpc = "raised" /\ raised = "ValueError"
            ELSE /\ shipping_option.raised = ""
                 /\ shipping_option.cls =
                        IF Truthy(company) THEN CompanyClass(company)
                        ELSE strategies[type]
                 /\ shipping_option.wraps =
                        IF ~Truthy(company) /\ Truthy(decorator)
                        THEN <<decorators(rev)[decorator]>> ELSE <<>>

C4_Witness ==
    /\ dpc = "raised" /\ raised = "ValueError"
    /\ input.company = None /\ input.shipping_type = "ilban" /\ input.decorator = "halin"

\* C5: with a recognized carrier key, whatever the method and modifier keys,
\* the resolver returns the carrier's strategy: the cost is the carrier's flat
\* amount, the steps and the arrival time are the carrier's.
C5_CarrierWins ==
    (Resolved /\ input.company \in DOMAIN companies(rev)) =>
        LET carrier == Strategy(CompanyClass(input.company), <<>>)
        IN  /\ shipping_option = carrier
            /\ dpc # "raised"
            /\ dpc \in {"steps", "loop", "done"} =>
                   cost = Value(PyInt(company_cost(CompanyClass(input.company))))
            /\ dpc \in {"loop", "done"} =>
                   /\ steps = get_delivery_steps(rev, carrier, input.destination,
                                                 input.origin, input.departure_time)
                   /\ calculate_arrival_time(shipping_option, input.departure_time) =
                          input.departure_time + transit(CompanyClass(input.company))

C5_Witness ==
    /\ dpc = "done"
    /\ input.company = "hanjin" /\ input.shipping_type = "ilban"
    /\ input.decorator = "boheom" /\ input.item_value = 1000
    /\ cost.value = PyInt(2500) /\ Len(history) = 2

\* C6, as claimed: once detach(o, e) was called, and o was not attached under
\* e again, no notify or set_state on e delivers an update to o.
C6_DetachedReceivesNothing ==
    frame.op # "none" =>
        \A k \in 1..Len(calllog) : detachedAt[calllog[k].observer][frame.event_type] = -1

\* C6, amended: once detach(o, e) was called while o had at most one
\* registration under e, and o was not attached under e again, no notify or
\* set_state on e delivers an update to o.
C6_LastRegistrationDetached ==
    frame.op # "none" =>
        \A k \in 1..Len(calllog) :
            detachedAt[calllog[k].observer][frame.event_type] \notin {0, 1}

C6_Witness ==
    /\ Returned
    /\ \E o \in Subscribers :
          /\ detachedAt[o][frame.event_type] = 1
          /\ alive[o]
          /\ Count(Observers(calllog), o) = 0
    /\ Len(calllog) >= 1

\* C7: a live subscriber attached k times under an event type and never
\* detached from it receives exactly k updates from one notify or set_state on
\* that event type.
C7_NoDeduplication ==
    Returned =>
        \A o \in Subscribers :
            (alive[o] /\ ~everDetached[o][frame.event_type]) =>
                Count(Observers(calllog), o) = Count(attached[frame.event_type], o)

C7_Witness ==
    /\ Returned
    /\ \E o \in Subscribers :
          /\ alive[o] /\ ~everDetached[o][frame.event_type]
          /\ Count(attached[frame.event_type], o) = 2
          /\ Count(Observers(calllog), o) = 2

\* C8: detach raises nothing and changes neither the state nor the history; on
\* a subscriber with no registration under the event type it leaves the
\* registry as it is, otherwise it removes one registration of the subscriber
\* under the event type and nothing else.
C8_DetachFrame ==
    [][\A o \in Subscribers, e \in EventTypes :
          Detach(o, e) =>
              /\ raised' = ""
              /\ state' = state /\ history' = history
              /\ IF Registrations(o, e) = 0
                 THEN observers' = observers
                 ELSE /\ DOMAIN observers' = DOMAIN observers
                      /\ \A e2 \in DOMAIN observers \ {e} : observers'[e2] = observers[e2]
                      /\ Len(observers'[e]) = Len(observers[e]) - 1
                      /\ Count(observers'[e], o) = Count(observers[e], o) - 1
                      /\ SelectSeq(observers'[e], LAMBDA x : x # o) =
                             SelectSeq(observers[e], LAMBDA x : x # o)]_vars

C8_Witness ==
    /\ \E o \in Subscribers, e \in EventTypes :
          detachedAt[o][e] = 2 /\ Registrations(o, e) = 1
    /\ \E o \in Subscribers, e \in EventTypes :
          detachedAt[o][e] = 0 /\ e \notin DOMAIN observers

\* C9: a notify that meets the reference of a reclaimed subscriber raises
\* nothing, calls no update for it, calls the update of every live registration
\* and leaves the registration list as it was.
C9_DeadSkipped ==
    /\ frame.op # "none" => notify_list(observers, frame.event_type) = frame.list0
    /\ (Returned /\ \E k \in 1..Len(frame.list0) : ~alive[frame.list0[k]]) =>
          /\ raised = ""
          /\ \A k \in 1..Len(calllog) : alive[calllog[k].observer]
          /\ Observers(calllog) = SelectSeq(frame.list0, LAMBDA x : alive[x])

C9_Witness ==
    /\ Returned
    /\ Len(frame.list0) >= 2
    /\ ~alive[frame.list0[1]] /\ alive[frame.list0[2]]
    /\ Len(calllog) >= 1
    /\ notify_list(observers, frame.event_type) = frame.list0

\* C10: a set_state(newState, eventType) call has, when it returns, called the
\* update of each live registration under eventType once, in attachment order,
\* with newState, and of no subscriber without a registration under eventType.
C10_DeliveryOrder ==
    (Returned /\ frame.op = "set_state") =>
        LET e == frame.event_type
        IN  /\ \A k \in 1..Len(calllog) : calllog[k].state = frame.arg
            /\ state = frame.arg
            /\ Observers(calllog) =
                   SelectSeq(notify_list(observers, e), LAMBDA x : alive[x])
            /\ (\A o \in Subscribers : ~everDetached[o][e]) =>
                   Observers(calllog) = SelectSeq(attached[e], LAMBDA x : alive[x])
            /\ \A o \in Subscribers :
                   Registrations(o, e) = 0 => Count(Observers(calllog), o) = 0

C10_Witness ==
    /\ Returned /\ frame.op = "set_state"
    /\ Len(calllog) = 2 /\ calllog[1].observer # calllog[2].observer
    /\ Len(history) = 2 /\ history[1] # history[2]
    /\ \E o \in Subscribers, e \in EventTypes :
          e # frame.event_type /\ Registrations(o, e) > 0

\* ---------------------------------------------------------------------------
\* A caller of PackageTracker.get_history
\* ---------------------------------------------------------------------------

\* get_history returns self.history: the list object itself, not a copy.  The
\* result is a reference, so what the caller does to it is done to the log.
TrackerHistory == "tracker.history"
get_history == TrackerHistory

IsPrefix(s, t) == Len(s) <= Len(t) /\ SubSeq(t, 1, Len(s)) = s
Reverse(s) == [k \in 1..Len(s) |-> s[Len(s) + 1 - k]]
RemoveAt(s, i) == SubSeq(s, 1, i - 1) \o SubSeq(s, i + 1, Len(s))

\* h = tracker.get_history()
GetHistory ==
    /\ dpc = "off" /\ pc = "idle"
    /\ returned' = get_history
    /\ UNCHANGED <<rev, observers, state, history, alive, pc, frame, raised, calllog>>
    /\ UNCHANGED ghostvars
    /\ UNCHANGED drvvars
    /\ UNCHANGED <<behaviour, stack, nsetstate, arrival>>

\* del h[i]  (h.pop(i), h.remove(x)) on the list the caller holds
CallerRemove(i) ==
    /\ dpc = "off" /\ pc = "idle" /\ returned = TrackerHistory
    /\ i \in 1..Len(history)
    /\ history' = RemoveAt(history, i)
    /\ UNCHANGED <<rev, observers, state, alive, pc, frame, raised, calllog>>
    /\ UNCHANGED ghostvars
    /\ UNCHANGED drvvars
    /\ UNCHANGED extvars

\* h.reverse() on the list the caller holds
CallerReverse ==
    /\ dpc = "off" /\ pc = "idle" /\ returned = TrackerHistory
    /\ Len(history) >= 2
    /\ history' = Reverse(history)
    /\ UNCHANGED <<rev, observers, state, alive, pc, frame, raised, calllog>>
    /\ UNCHANGED ghostvars
    /\ UNCHANGED drvvars
    /\ UNCHANGED extvars

\* h[i] = v on the list the caller holds
CallerOverwrite(i, v) ==
    /\ dpc = "off" /\ pc = "idle" /\ returned = TrackerHistory
    /\ i \in 1..Len(history)
    /\ history' = [history EXCEPT ![i] = v]
    /\ UNCHANGED <<rev, observers, state, alive, pc, frame, raised, calllog>>
    /\ UNCHANGED ghostvars
    /\ UNCHANGED drvvars
    /\ UNCHANGED extvars

NextCaller ==
    \/ \E o \in Subscribers, e \in EventTypes : Attach(o, e)
    \/ \E st \in States, e \in EventTypes : SetState(st, e)
    \/ NotifyStep
    \/ NotifyReturn
    \/ GetHistory
    \/ \E i \in 1..MaxCalls : CallerRemove(i)
    \/ CallerReverse
    \/ \E i \in 1..MaxCalls, v \in States : CallerOverwrite(i, v)

SpecCaller == Init /\ [][NextCaller]_vars

\* C11: whatever a caller does with the list get_history returned, the log of
\* the tracker is only ever extended: every step leaves the recorded statuses
\* in place and in order.
C11_AppendOnlyAgainstCallers == [][IsPrefix(history, history')]_vars

\* C12: when the resolver returned a method wrapped in a modifier, the cost
\* call the driver makes returns a value, which is the cost of the method for
\* the same arguments plus the delta of the modifier (insurance: the
\* percentage of the item value; priority: the fixed amount), and is not less
\* than the cost of the method.
C12_ModifierAddsDelta ==
    (/\ dpc \in {"steps", "loop", "done", "raised"}
     /\ shipping_option.raised = ""
     /\ shipping_option.wraps # <<>>) =>
        LET M == calculate_cost(rev, Strategy(shipping_option.cls, <<>>),
                                CostArgs(rev, input))
            delta == IF shipping_option.wraps[1] = "InsuranceDecorator"
                     THEN insurance_cost(rev, input.item_value)
                     ELSE PyInt(10000)
        IN  /\ cost.raised = ""
            /\ cost.value = PyAdd(M.value, delta)
            /\ PyLeq(M.value, cost.value)

\* ---------------------------------------------------------------------------
\* The strategy calls on their own: a client builds a strategy, a method under
\* up to two decorators, and calls calculate_cost, calculate_arrival_time and
\* get_delivery_steps on it.
\* ---------------------------------------------------------------------------
MaxWeight == 16
CostValues == {0, 3, 7, 250, 1000}
CostWeights(r) == IF r = "carries" THEN 0..MaxWeight ELSE {0}
Destinations == {"busan", "jeju"}

DecoratorClasses(r) == {decorators(r)[k] : k \in DOMAIN decorators(r)}
Chains(r) ==
    {<<>>} \cup {<<a>> : a \in DecoratorClasses(r)}
           \cup {<<a, b>> : a \in DecoratorClasses(r), b \in DecoratorClasses(r)}

CostInputs(r) ==
    [shipping_type : {""}, decorator : {None}, company : {None},
     item_value : CostValues, item_weight : CostWeights(r),
     destination : Destinations, origin : {"seoul"}, departure_time : DepartureTimes]

InitCost ==
    /\ rev \in Revisions
    /\ InitPackage
    /\ behaviour = [o \in Subscribers |-> Prints]
    /\ dpc = "built"
    /\ input \in CostInputs(rev)
    /\ shipping_option \in {Strategy(cls, w) : cls \in MethodClasses, w \in Chains(rev)}
    /\ cost = Value(PyInt(0))
    /\ steps = <<>>
    /\ stepi = 0

\* cost = shipping_option.calculate_cost(item_value, destination_country[, item_weight])
CallCost ==
    /\ dpc = "built"
    /\ cost' = calculate_cost(rev, shipping_option, CostArgs(rev, input))
    /\ dpc' = "costed"
    /\ UNCHANGED <<rev, observers, state, history, alive, pc, frame, raised, calllog>>
    /\ UNCHANGED ghostvars
    /\ UNCHANGED <<input, shipping_option, steps, stepi>>
    /\ UNCHANGED extvars

\* arrival_time = shipping_option.calculate_arrival_time(departure_time)
CallArrival ==
    /\ dpc = "costed"
    /\ arrival' = calculate_arrival_time(shipping_option, input.departure_time)
    /\ dpc' = "timed"
    /\ UNCHANGED <<rev, observers, state, history, alive, pc, frame, raised, calllog>>
    /\ UNCHANGED ghostvars
    /\ UNCHANGED <<input, shipping_option, cost, steps, stepi>>
    /\ UNCHANGED <<behaviour, stack, returned, nsetstate>>

\* steps = shipping_option.get_delivery_steps(destination, origin, departure_time)
CallSteps ==
    /\ dpc = "timed"
    /\ steps' = get_delivery_steps(rev, shipping_option, input.destination, input.origin,
                                   input.departure_time)
    /\ dpc' = "called"
    /\ UNCHANGED <<rev, observers, state, history, alive, pc, frame, raised, calllog>>
    /\ UNCHANGED ghostvars
    /\ UNCHANGED <<input, shipping_option, cost, stepi>>
    /\ UNCHANGED extvars

NextCost ==
    \/ CallCost
    \/ CallArrival
    \/ CallSteps

SpecCost == InitCost /\ [][NextCost]_vars

Costed == dpc \in {"costed", "timed", "called"}

\* C13: in carries.py the cost of an undecorated method is its base (standard
\* 5000, next-day 20000, international 15000) plus 0 for a weight up to 5,
\* plus 2000 for a weight above 5 and up to 10, plus 5000 + 100 * (w - 10) for
\* a weight w above 10, whatever the item value and the destination country.
C13_WeightTiers ==
    (rev = "carries" /\ Costed /\ shipping_option.wraps = <<>>) =>
        LET w == input.item_weight
            base == CASE shipping_option.cls = "StandardShipping" -> 5000
                      [] shipping_option.cls = "NextDayShipping" -> 20000
                      [] shipping_option.cls = "InternationalShipping" -> 15000
        IN  /\ cost.raised = ""
            /\ w <= 5 => cost.value = PyInt(base)
            /\ (5 < w /\ w <= 10) => cost.value = PyInt(base + 2000)
            /\ w > 10 => cost.value = PyInt(base + 5000 + 100 * (w - 10))
            /\ w = 3 => cost.value = PyInt(base)
            /\ w = 8 => cost.value = PyInt(base + 2000)
            /\ w = 15 => cost.value = PyInt(base + 5500)

C13_Witness ==
    /\ rev = "carries" /\ Costed /\ shipping_option = Strategy("NextDayShipping", <<>>)
    /\ input.item_weight = 15 /\ input.item_value = 3 /\ input.destination = "jeju"
    /\ cost = Value(PyInt(25500))

\* What a decorator adds to the cost of the strategy it wraps.
delta(r, decorator, item_value) ==
    IF decorator = "InsuranceDecorator" THEN insurance_cost(r, item_value)
    ELSE PyInt(10000)

MethodOf(s) == Strategy(s.cls, <<>>)
Swapped(s) == Strategy(s.cls, Reverse(s.wraps))

\* C14: in carries_love.py a method M under two decorators A and B costs
\* M.cost + A.delta + B.delta in either order of wrapping, and both chains
\* have the delivery steps and the arrival time of M.
C14_StackingCommutes ==
    (rev = "carries_love" /\ dpc = "called" /\ Len(shipping_option.wraps) = 2) =>
        LET args == CostArgs(rev, input)
            M == calculate_cost(rev, MethodOf(shipping_option), args)
            A == delta(rev, shipping_option.wraps[1], input.item_value)
            B == delta(rev, shipping_option.wraps[2], input.item_value)
        IN  /\ cost = Value(PyAdd(PyAdd(M.value, A), B))
            /\ calculate_cost(rev, Swapped(shipping_option), args) = cost
            /\ steps = get_delivery_steps(rev, MethodOf(shipping_option), input.destination,
                                          input.origin, input.departure_time)
            /\ arrival = calculate_arrival_time(MethodOf(shipping_option),
                                                input.departure_time)

\* C16: between the calls made on a TrackedPackage, the history has one entry
\* for each set_state call made, the current state is None exactly when the
\* history is empty and is otherwise the last history entry; every step only
\* extends the history, and the steps that are not a set_state call (attach,
\* detach, notify) change neither the history nor the current state.
C16_PackageInvariants ==
    /\ [](pc = "idle" =>
            /\ Len(history) = nsetstate
            /\ state = NoState <=> history = <<>>
            /\ history # <<>> => state = Some(history[Len(history)]))
    /\ [][IsPrefix(history, history')]_vars
    /\ [][nsetstate' = nsetstate => (history' = history /\ state' = state)]_vars

C16_Witness ==
    /\ Returned /\ frame.op = "notify" /\ Len(calllog) >= 1
    /\ nsetstate = 2 /\ Len(history) = 2 /\ history[1] # history[2]
    /\ state = Some(history[2])

\* ---------------------------------------------------------------------------
\* Subscribers whose update calls back into the package: attach, detach or
\* set_state on the same package under the event type being notified, while
\* the loop of notify is running.  The loop iterates the registry's list
\* itself, by index, so it sees what the callbacks do to it.
\* ---------------------------------------------------------------------------
MaxRCalls == 3
MaxRegs == 7

\* update(state) of a subscriber: print only; attach(target, e); detach(target,
\* e); or, when passed the state "s1", set_state("s2", e).
Behaviours ==
    {Prints} \cup {[kind |-> k, target |-> t] : k \in {"attach", "detach"}, t \in Subscribers}
             \cup {[kind |-> "set_state", target |-> ""]}

\* The subscribers of one package: callbacks that attach and callbacks that
\* call set_state are explored apart, so that a loop that attaches is never
\* nested in another loop.
Profiles ==
    {b \in [Subscribers -> Behaviours] :
        ~(\E o, p \in Subscribers : b[o].kind = "attach" /\ b[p].kind = "set_state")}

InitReentrant ==
    /\ rev = "carries"
    /\ InitPackage
    /\ behaviour \in Profiles
    /\ dpc = "off"
    /\ input = NoInput
    /\ shipping_option = Raise("")
    /\ cost = Value(PyInt(0))
    /\ steps = <<>>
    /\ stepi = 0

\* The loop of notify is at the registration of subscriber o.
Visiting(o) ==
    /\ pc = "notify" /\ frame.i < Len(LoopList)
    /\ o = notify_item(LoopList, frame.i)

CallsSetState(o) == behaviour[o].kind = "set_state" /\ state = Some("s1")

\* One iteration: update prints (or its condition for set_state is not met).
UpdatePrint(o) ==
    /\ Visiting(o)
    /\ behaviour[o].kind = "print" \/ (behaviour[o].kind = "set_state" /\ ~CallsSetState(o))
    /\ calllog' = notify_body(o, alive[o], state, history, calllog).log
    /\ frame' = [frame EXCEPT !.i = @ + 1]
    /\ UNCHANGED <<rev, observers, state, history, alive, pc, raised>>
    /\ UNCHANGED ghostvars
    /\ UNCHANGED drvvars
    /\ UNCHANGED extvars

\* One iteration: update calls attach(target, event_type) on the package.
UpdateAttach(o) ==
    /\ Visiting(o)
    /\ behaviour[o].kind = "attach"
    /\ Len(LoopList) < MaxRegs
    /\ LET t == behaviour[o].target
           e == frame.event_type
       IN  /\ observers' = attach(observers, t, e)
           /\ attached' = [attached EXCEPT ![e] = Append(@, t)]
           /\ detachedAt' = [detachedAt EXCEPT ![t][e] = -1]
    /\ calllog' = notify_body(o, alive[o], state, history, calllog).log
    /\ frame' = [frame EXCEPT !.i = @ + 1]
    /\ UNCHANGED <<rev, state, history, alive, pc, raised, everDetached, ncalls>>
    /\ UNCHANGED drvvars
    /\ UNCHANGED extvars

\* A loop that cannot end: every registration still to visit belongs to a
\* subscriber whose update attaches a subscriber whose update attaches, so
\* every iteration appends a registration of the same kind.
Attaching == {o \in Subscribers : behaviour[o].kind = "attach"}
Endless ==
    /\ pc = "notify" /\ stack = <<>> /\ frame.i < Len(LoopList)
    /\ \A k \in (frame.i + 1)..Len(LoopList) :
          LoopList[k] \in Attaching /\ behaviour[LoopList[k]].target \in Attaching

\* One iteration of an endless loop whose list has reached MaxRegs entries.
\* The iteration is the one of UpdateAttach; to keep the list finite the model
\* forgets the registrations the loop has left behind (the iterator never
\* returns to them and no callback still to run detaches), together with their
\* log entries: the registration visited becomes the first of the list.
UpdateAttachEndless(o) ==
    /\ Visiting(o)
    /\ behaviour[o].kind = "attach"
    /\ Len(LoopList) >= MaxRegs /\ Endless
    /\ LET t == behaviour[o].target
           e == frame.event_type
           ahead == [observers EXCEPT ![e] = SubSeq(@, frame.i + 1, Len(@))]
       IN  /\ observers' = attach(ahead, t, e)
           /\ attached' = [attached EXCEPT ![e] = Append(ahead[e], t)]
           /\ detachedAt' = [detachedAt EXCEPT ![t][e] = -1]
    /\ calllog' = notify_body(o, alive[o], state, history, <<>>).log
    /\ frame' = [frame EXCEPT !.i = 1]
    /\ UNCHANGED <<rev, state, history, alive, pc, raised, everDetached, ncalls>>
    /\ UNCHANGED drvvars
    /\ UNCHANGED extvars

\* One iteration: update calls detach(target, event_type) on the package.
UpdateDetach(o) ==
    /\ Visiting(o)
    /\ behaviour[o].kind = "detach"
    /\ LET t == behaviour[o].target
           e == frame.event_type
       IN  /\ observers' = detach(observers, t, e).observers
           /\ detachedAt' = [detachedAt EXCEPT ![t][e] = Count(notify_list(observers, e), t)]
           /\ everDetached' = [everDetached EXCEPT ![t][e] = TRUE]
    /\ calllog' = notify_body(o, alive[o], state, history, calllog).log
    /\ frame' = [frame EXCEPT !.i = @ + 1]
    /\ UNCHANGED <<rev, state, history, alive, pc, raised, attached, ncalls>>
    /\ UNCHANGED drvvars
    /\ UNCHANGED extvars

\* One iteration: update calls set_state("s2", event_type) on the package; the
\* running loop is suspended until the nested call returns.
UpdateSetState(o) ==
    /\ Visiting(o)
    /\ CallsSetState(o)
    /\ LET r == set_state(history, state, "s2")
       IN  /\ history' = r.history
           /\ state' = r.state
    /\ stack' = <<[frame |-> [frame EXCEPT !.i = @ + 1],
                   calllog |-> notify_body(o, alive[o], state, history, calllog).log]>>
                \o stack
    /\ frame' = Enter("set_state", observers, frame.event_type, Some("s2"))
    /\ calllog' = <<>>
    /\ nsetstate' = nsetstate + 1
    /\ UNCHANGED <<rev, observers, alive, pc, raised>>
    /\ UNCHANGED ghostvars
    /\ UNCHANGED drvvars
    /\ UNCHANGED <<behaviour, returned, arrival>>

\* The loop of a nested call is exhausted: the callback that made the call
\* returns and the suspended loop goes on.
NestedReturn ==
    /\ pc = "notify" /\ frame.i >= Len(LoopList) /\ stack # <<>>
    /\ frame' = stack[1].frame
    /\ calllog' = stack[1].calllog
    /\ stack' = Tail(stack)
    /\ UNCHANGED <<rev, observers, state, history, alive, pc, raised>>
    /\ UNCHANGED ghostvars
    /\ UNCHANGED drvvars
    /\ UNCHANGED <<behaviour, returned, nsetstate, arrival>>

\* The loop of the call the environment made is exhausted: the call returns.
CallReturn ==
    /\ stack = <<>>
    /\ NotifyReturn

NextLoop ==
    \/ \E o \in Subscribers : UpdatePrint(o)
    \/ \E o \in Subscribers : UpdateAttach(o)
    \/ \E o \in Subscribers : UpdateAttachEndless(o)
    \/ \E o \in Subscribers : UpdateDetach(o)
    \/ \E o \in Subscribers : UpdateSetState(o)
    \/ NestedReturn
    \/ CallReturn

NextReentrant ==
    \/ \E o \in Subscribers, e \in EventTypes : ncalls < MaxRCalls /\ Attach(o, e)
    \/ \E o \in Subscribers, e \in EventTypes : ncalls < MaxRCalls /\ Detach(o, e)
    \/ \E e \in EventTypes : ncalls < MaxRCalls /\ Notify(e)
    \/ \E st \in States, e \in EventTypes : ncalls < MaxRCalls /\ SetState(st, e)
    \/ NextLoop

\* The interpreter keeps running the call in progress.
SpecReentrant == InitReentrant /\ [][NextReentrant]_vars /\ WF_vars(NextLoop)

\* C15: every set_state / notify call that is started returns (or raises),
\* whatever the update callbacks of the subscribers do.
C15_CallsComplete == (pc = "notify") ~> (pc = "idle")

\* The list reaches MaxRegs entries only in a loop that cannot end, and such a
\* loop stays one at every iteration.
CapOnlyWhenEndless ==
    (/\ pc = "notify" /\ frame.i < Len(LoopList) /\ Len(LoopList) >= MaxRegs
     /\ behaviour[notify_item(LoopList, frame.i)].kind = "attach") => Endless
EndlessIsClosed == [][Endless => Endless']_vars

\* The subscribers that the callbacks run so far by the current call detached.
DetachedInCall ==
    {behaviour[calllog[k].observer].target :
        k \in {j \in 1..Len(calllog) : behaviour[calllog[j].observer].kind = "detach"}}

\* C17: when the callbacks of a set_state call detach subscribers (and do
\* nothing else to the package), every live subscriber that was registered
\* under the event type when the call started and was not detached has
\* received its update when the call returns, once for its registration and in
\* attachment order.
C17_OthersStillNotified ==
    (/\ Returned /\ frame.op = "set_state"
     /\ \A o \in Subscribers : behaviour[o].kind \in {"print", "detach"}
     /\ DetachedInCall # {}) =>
        SelectSeq(Observers(calllog), LAMBDA x : x \notin DetachedInCall)
            = SelectSeq(frame.list0, LAMBDA x : alive[x] /\ x \notin DetachedInCall)

====
